---- MODULE Spec2Model ----
(***************************************************************************)
(* Booking lifecycle and billing engine of the hotel front desk backend:   *)
(* the HTTP handlers of app/routers/bookings.py over the repositories of   *)
(* app/repositories, with the relational store as the state.               *)
(***************************************************************************)
EXTENDS Integers, Sequences, FiniteSets, TLC

\* ---------------------------------------------------------------- bounds
MaxTime == 4          \* the clock runs over 0..MaxTime; every request is served at a later instant
MaxSlot == 2          \* requests name timestamps 0..MaxSlot
DayLen == 3           \* instants per calendar day
MaxBookings == 2      \* rows ever inserted into bookings
MaxDetails == 2       \* rows ever inserted into booking_details
MaxPayments == 2      \* rows ever inserted by PaymentRepository.create

NULL == -1            \* SQL NULL / Python None in a timestamp column
UNSET == "UNSET"      \* field absent from the request body (exclude_unset)

Times == 0..MaxSlot
Amounts == {1, 2}      \* amounts of the ledger rows in requests

\* ------------------------------------------------------------ enumerations
BookingStatus == [CHECKED_IN |-> "CheckedIn", CHECKED_OUT |-> "CheckedOut"]

PaymentStatus == [UNPAID |-> "Unpaid", PARTIAL |-> "Partial", PAID |-> "Paid"]

RoomStatus == [AVAILABLE |-> "Available", OCCUPIED |-> "Occupied", OUT_OF_SERVICE |-> "OutOfService"]

HousekeepingStatus == [CLEAN |-> "Clean", DIRTY |-> "Dirty", INSPECTED |-> "Inspected", OUT_OF_ORDER |-> "OutOfOrder"]

PaymentMethod == [CASH |-> "Cash", CARD |-> "Card"] @@ ("OTHER" :> "Other")

\* Enum attribute access: a name that is not a member raises AttributeError.
HasMember(enum, name) == name \in DOMAIN enum

\* ------------------------------------------------------------ seeded rows
RoomIds == {1, 2}
RoomTypeIds == {1}
GuestIds == {1}
MissingId == 9        \* an id that no table holds
Requests == {1, 2}    \* create-booking requests that can be in flight together
Idle == [pc |-> "idle"]

max_occupancy == [rt \in RoomTypeIds |-> 3]

VARIABLES
  bookings,         \* table bookings: id -> row
  booking_details,  \* table booking_details: set of rows
  payments,         \* table payments: set of rows
  rooms,            \* table rooms: id -> [status, housekeeping_status]
  next_booking_id,  \* primary-key sequences
  next_detail_id,
  next_payment_id,
  now,              \* datetime.now()
  issued,           \* booking numbers returned by generate_booking_no to stored bookings, in order
  lastOp,           \* handler that served the last request
  lastId,           \* booking id the last request named (or created)
  lastStatus,       \* HTTP status of the last response
  inflight          \* create-booking requests suspended at an await: request -> local state

db == <<bookings, booking_details, payments, rooms>>
seqs == <<next_booking_id, next_detail_id, next_payment_id>>
vars == <<bookings, booking_details, payments, rooms, next_booking_id, next_detail_id,
          next_payment_id, now, issued, lastOp, lastId, lastStatus, inflight>>

\* ------------------------------------------------------- booking numbers
RECURSIVE Digits(_)
Digits(n) == IF n < 10 THEN <<n>> ELSE Append(Digits(n \div 10), n % 10)

RECURSIVE ZeroPad3(_)
ZeroPad3(s) == IF Len(s) >= 3 THEN s ELSE ZeroPad3(<<0>> \o s)

\* f"{seq_num:03d}"
Format03d(n) == ZeroPad3(Digits(n))

\* int(max_booking_no[-3:])
RECURSIVE IntOf(_)
IntOf(s) == IF Len(s) = 0 THEN 0 ELSE 10 * IntOf(SubSeq(s, 1, Len(s) - 1)) + s[Len(s)]

Last3Int(s) == IntOf(SubSeq(s, Len(s) - 2, Len(s)))

\* string order of two suffixes behind the same prefix
RECURSIVE StrLess(_, _)
StrLess(a, b) ==
  IF Len(a) = 0 THEN Len(b) > 0
  ELSE IF Len(b) = 0 THEN FALSE
  ELSE IF a[1] # b[1] THEN a[1] < b[1]
  ELSE StrLess(Tail(a), Tail(b))

\* datetime.now().strftime("%y%m%d")
TodayStr(t) == t \div DayLen

\* func.max(Booking.booking_no) over the rows whose number starts with the prefix;
\* the empty string stands for no row
MaxBookingNo(prefix) ==
  LET S == {bookings[i].booking_no.seq : i \in {j \in DOMAIN bookings : bookings[j].booking_no.prefix = prefix}}
  IN IF S = {} THEN << >>
     ELSE CHOOSE m \in S : \A o \in S : o = m \/ StrLess(o, m)

generate_booking_no ==
  LET prefix == TodayStr(now)
      max_booking_no == MaxBookingNo(prefix)
      seq_num == IF max_booking_no # << >> THEN Last3Int(max_booking_no) + 1 ELSE 1
  IN [prefix |-> prefix, seq |-> Format03d(seq_num)]

\* is_room_booked with closed intervals: a booking still blocks the instant of its checkout
is_room_booked_closed(room_id, checkin, checkout) ==
  \E i \in DOMAIN bookings :
    /\ bookings[i].room_id = room_id
    /\ bookings[i].status # BookingStatus.CHECKED_OUT
    /\ IF checkout = NULL
       THEN /\ bookings[i].checkin <= checkin
            /\ (bookings[i].checkout = NULL \/ bookings[i].checkout >= checkin)
       ELSE /\ bookings[i].checkin < checkout
            /\ (bookings[i].checkout = NULL \/ bookings[i].checkout >= checkin)

\* ------------------------------------------------------ availability check
is_room_booked(room_id, checkin, checkout) ==
  \E i \in DOMAIN bookings :
    /\ bookings[i].room_id = room_id
    /\ bookings[i].status # BookingStatus.CHECKED_OUT
    /\ IF checkout = NULL
       THEN /\ bookings[i].checkin <= checkin
            /\ (bookings[i].checkout = NULL \/ bookings[i].checkout > checkin)
       ELSE /\ bookings[i].checkin < checkout
            /\ (bookings[i].checkout = NULL \/ bookings[i].checkout > checkin)

\* ------------------------------------------------------- table constraints
\* a bookings table without the check on the dates
chk_bookings_dates_off(b) == TRUE

chk_bookings_dates(b) == b.checkout = NULL \/ b.checkout >= b.checkin

chk_bookings_occupancy(b) == b.num_adults + b.num_children > 0

\* a bookings table without the unique index on booking_no
booking_no_unique_off(b) == TRUE

booking_no_unique(b) == \A i \in DOMAIN bookings : bookings[i].booking_no # b.booking_no

\* ------------------------------------------------------------- ledger sums
RECURSIVE SumAmount(_)
SumAmount(S) == IF S = {} THEN 0 ELSE LET r == CHOOSE x \in S : TRUE IN r.amount + SumAmount(S \ {r})

total_amount(booking_id) == SumAmount({d \in booking_details : d.booking_id = booking_id})

paid_amount(booking_id) == SumAmount({p \in payments : p.booking_id = booking_id})

\* ------------------------------------------------------------------- Init
Init ==
  /\ bookings = << >>
  /\ booking_details = {}
  /\ payments = {}
  /\ rooms = [r \in RoomIds |-> [status |-> RoomStatus.AVAILABLE, housekeeping_status |-> HousekeepingStatus.CLEAN]]
  /\ next_booking_id = 1
  /\ next_detail_id = 1
  /\ next_payment_id = 1
  /\ now = 0
  /\ issued = << >>
  /\ lastOp = "startup"
  /\ lastId = 0
  /\ lastStatus = 0
  /\ inflight = [r \in Requests |-> Idle]

\* One request is served at the instant now; the next one is served later.
Respond(op, id, code) ==
  /\ lastOp' = op
  /\ lastId' = id
  /\ lastStatus' = code
  /\ now' = now + 1
  /\ inflight' = inflight

Extend(f, k, v) == [i \in DOMAIN f \cup {k} |-> IF i = k THEN v ELSE f[i]]

Remove(f, k) == [i \in DOMAIN f \ {k} |-> f[i]]

\* ------------------------------------------------------ POST /bookings
\* Request bodies. BaseBody is an open-ended stay that starts after every request served;
\* the others are every interval over Times on room 1 and two stays on room 2 with the
\* defaults, bodies that set status or payment_status, and one body per validation failure.
BaseBody ==
  [room_id |-> 1, room_type_id |-> 1, primary_guest_id |-> 1, checkin |-> MaxTime, checkout |-> NULL,
   num_adults |-> 1, num_children |-> 0, status |-> UNSET, payment_status |-> UNSET]

BookingCreateBodies ==
  {[BaseBody EXCEPT !.checkin = ci, !.checkout = co] : ci \in Times, co \in Times \cup {NULL}}
  \cup {[BaseBody EXCEPT !.room_id = 2],
        [BaseBody EXCEPT !.room_id = 2, !.checkin = 1, !.checkout = 2],
        [BaseBody EXCEPT !.status = BookingStatus.CHECKED_OUT],
        [BaseBody EXCEPT !.status = BookingStatus.CHECKED_OUT, !.checkin = 1, !.checkout = 2],
        [BaseBody EXCEPT !.payment_status = PaymentStatus.PAID],
        [BaseBody EXCEPT !.room_id = MissingId],
        [BaseBody EXCEPT !.room_type_id = MissingId],
        [BaseBody EXCEPT !.primary_guest_id = MissingId],
        [BaseBody EXCEPT !.num_adults = 3, !.num_children = 1],
        [BaseBody EXCEPT !.num_adults = 0, !.num_children = 0]}

\* Booking(**booking_data) with the column defaults, and the generated number
NewBooking(p) ==
  [booking_no |-> generate_booking_no,
   checkin |-> p.checkin, checkout |-> p.checkout,
   room_id |-> p.room_id, room_type_id |-> p.room_type_id, primary_guest_id |-> p.primary_guest_id,
   num_adults |-> p.num_adults, num_children |-> p.num_children,
   status |-> IF p.status = UNSET THEN BookingStatus.CHECKED_IN ELSE p.status,
   payment_status |-> IF p.payment_status = UNSET THEN PaymentStatus.UNPAID ELSE p.payment_status]

\* a validation that accepts a checkin in the past
CreateValidation_any_checkin(p) ==
  IF p.room_id \notin DOMAIN rooms THEN 400
  ELSE IF p.room_type_id \notin RoomTypeIds THEN 400
  ELSE IF p.primary_guest_id \notin GuestIds THEN 400
  ELSE IF p.checkout # NULL /\ p.checkin >= p.checkout THEN 400
  ELSE IF is_room_booked(p.room_id, p.checkin, p.checkout) THEN 409
  ELSE IF p.num_adults + p.num_children > max_occupancy[p.room_type_id] THEN 400
  ELSE 0

\* validation of create_booking: the status of the first failing check, 0 when all pass
CreateValidation(p) ==
  IF p.room_id \notin DOMAIN rooms THEN 400
  ELSE IF p.room_type_id \notin RoomTypeIds THEN 400
  ELSE IF p.primary_guest_id \notin GuestIds THEN 400
  ELSE IF p.checkin < now THEN 400
  ELSE IF p.checkout # NULL /\ p.checkin >= p.checkout THEN 400
  ELSE IF is_room_booked(p.room_id, p.checkin, p.checkout) THEN 409
  ELSE IF p.num_adults + p.num_children > max_occupancy[p.room_type_id] THEN 400
  ELSE 0

create_booking(p) ==
  /\ now < MaxTime
  /\ next_booking_id <= MaxBookings
  /\ LET v == CreateValidation(p)
         b == NewBooking(p)
     IN IF v # 0
        THEN /\ Respond("create_booking", 0, v)
             /\ UNCHANGED <<db, seqs, issued>>
        ELSE IF ~(chk_bookings_dates(b) /\ chk_bookings_occupancy(b) /\ booking_no_unique(b))
        THEN /\ Respond("create_booking", 0, 500)
             /\ UNCHANGED <<db, seqs, issued>>
        ELSE /\ bookings' = Extend(bookings, next_booking_id, b)
             /\ next_booking_id' = next_booking_id + 1
             /\ issued' = Append(issued, b.booking_no)
             /\ Respond("create_booking", next_booking_id, 201)
             /\ UNCHANGED <<booking_details, payments, rooms, next_detail_id, next_payment_id>>

BookingIdInputs == (1..MaxBookings) \cup {MissingId}

\* ------------------------------------------------ PUT /bookings/{id}/checkin
\* checkin that flips the status and keeps the reserved checkin time
CheckedInRow_keeps_checkin(b) == [b EXCEPT !.status = BookingStatus.CHECKED_IN]

\* BookingRepository.checkin: the row as flushed at commit
CheckedInRow(b) == [b EXCEPT !.status = BookingStatus.CHECKED_IN, !.checkin = now]

checkin_booking(id) ==
  /\ now < MaxTime
  /\ IF id \notin DOMAIN bookings
     THEN /\ Respond("checkin_booking", id, 404)
          /\ UNCHANGED <<db, seqs, issued>>
     ELSE IF bookings[id].status = BookingStatus.CHECKED_IN
     THEN /\ Respond("checkin_booking", id, 200)
          /\ UNCHANGED <<db, seqs, issued>>
     ELSE IF ~chk_bookings_dates(CheckedInRow(bookings[id]))
     THEN /\ Respond("checkin_booking", id, 500)
          /\ UNCHANGED <<db, seqs, issued>>
     ELSE /\ bookings' = [bookings EXCEPT ![id] = CheckedInRow(bookings[id])]
          /\ rooms' = [rooms EXCEPT ![bookings[id].room_id].status = RoomStatus.OCCUPIED]
          /\ Respond("checkin_booking", id, 200)
          /\ UNCHANGED <<booking_details, payments, seqs, issued>>

\* ----------------------------------------------- PUT /bookings/{id}/checkout
remaining_amount(id) == total_amount(id) - paid_amount(id)

\* a check-out that leaves the stored checkout time as it was
CheckedOutRow_keeps_checkout(b) ==
  [b EXCEPT !.status = BookingStatus.CHECKED_OUT, !.payment_status = PaymentStatus.PAID]

\* BookingRepository.checkout: the row as flushed at commit
CheckedOutRow(b) ==
  [b EXCEPT !.status = BookingStatus.CHECKED_OUT, !.checkout = now, !.payment_status = PaymentStatus.PAID]

\* settlement of the whole ledger total instead of the balance
AutoPayment_total(id) ==
  [id |-> next_payment_id, booking_id |-> id, payment_method |-> PaymentMethod["OTHER"],
   amount |-> total_amount(id), payer_name |-> "System"]

\* the Payment row checkout adds when remaining_amount > 0
AutoPayment(id) ==
  [id |-> next_payment_id, booking_id |-> id, payment_method |-> PaymentMethod["OTHER"],
   amount |-> remaining_amount(id), payer_name |-> "System"]

\* What the caller gets once the commit went through: with no settlement payment the local
\* name payment is unbound and refresh(payment) raises; with one, the un-awaited coroutine
\* self.get(booking_id) is returned and fails serialisation as BookingOut.
CheckoutResponse(id) == IF remaining_amount(id) > 0 THEN 500 ELSE 500

\* a guard that lets every status through
CheckoutAllowed_any(b) == TRUE

\* the status guard of BookingRepository.checkout
CheckoutAllowed(b) == b.status = BookingStatus.CHECKED_IN

checkout_booking(id) ==
  /\ now < MaxTime
  /\ IF id \notin DOMAIN bookings
     THEN /\ Respond("checkout_booking", id, 404)
          /\ UNCHANGED <<db, seqs, issued>>
     ELSE IF ~CheckoutAllowed(bookings[id])
     THEN /\ Respond("checkout_booking", id, 400)
          /\ UNCHANGED <<db, seqs, issued>>
     ELSE IF ~chk_bookings_dates(CheckedOutRow(bookings[id]))
     THEN /\ Respond("checkout_booking", id, 500)
          /\ UNCHANGED <<db, seqs, issued>>
     ELSE /\ bookings' = [bookings EXCEPT ![id] = CheckedOutRow(bookings[id])]
          /\ IF remaining_amount(id) > 0
             THEN /\ payments' = payments \cup {AutoPayment(id)}
                  /\ next_payment_id' = next_payment_id + 1
             ELSE UNCHANGED <<payments, next_payment_id>>
          /\ rooms' = [rooms EXCEPT ![bookings[id].room_id] =
                         [status |-> RoomStatus.AVAILABLE, housekeeping_status |-> HousekeepingStatus.DIRTY]]
          /\ Respond("checkout_booking", id, CheckoutResponse(id))
          /\ UNCHANGED <<booking_details, next_booking_id, next_detail_id, issued>>

\* ------------------------------------------------------ DELETE /bookings/{id}
\* a count that overlooks the payments
payments_count_none(id) == Cardinality({q \in payments : q.booking_id = id /\ q.id = 0})

payments_count(id) == Cardinality({p \in payments : p.booking_id = id})

delete_booking(id) ==
  /\ now < MaxTime
  /\ IF id \notin DOMAIN bookings
     THEN /\ Respond("delete_booking", id, 404)
          /\ UNCHANGED <<db, seqs, issued>>
     ELSE IF payments_count(id) > 0
     THEN /\ Respond("delete_booking", id, 400)
          /\ UNCHANGED <<db, seqs, issued>>
     ELSE /\ bookings' = Remove(bookings, id)
          /\ booking_details' = {d \in booking_details : d.booking_id # id}
          /\ payments' = {p \in payments : p.booking_id # id}
          /\ Respond("delete_booking", id, 204)
          /\ UNCHANGED <<rooms, seqs, issued>>

\* ------------------------------------------------------------ PUT /bookings/{id}
BookingUpdateBodies ==
  {[BaseBody EXCEPT !.checkin = ci, !.checkout = co] : ci \in {0, 1}, co \in {NULL, MaxSlot}}
  \cup {[BaseBody EXCEPT !.room_id = 2],
        [BaseBody EXCEPT !.status = BookingStatus.CHECKED_OUT],
        [BaseBody EXCEPT !.payment_status = PaymentStatus.PAID],
        [BaseBody EXCEPT !.num_adults = 3, !.num_children = 1],
        [BaseBody EXCEPT !.num_adults = 0, !.num_children = 0],
        [BaseBody EXCEPT !.checkin = 1, !.checkout = 0]}

\* BookingRepository.update: setattr for every field of the data whose value is not None
UpdatedRow(b, data) ==
  [b EXCEPT !.checkin = IF data.checkin # NULL THEN data.checkin ELSE @,
            !.checkout = IF data.checkout # NULL THEN data.checkout ELSE @,
            !.room_id = IF data.room_id # NULL THEN data.room_id ELSE @,
            !.room_type_id = IF data.room_type_id # NULL THEN data.room_type_id ELSE @,
            !.primary_guest_id = IF data.primary_guest_id # NULL THEN data.primary_guest_id ELSE @,
            !.num_adults = IF data.num_adults # NULL THEN data.num_adults ELSE @,
            !.num_children = IF data.num_children # NULL THEN data.num_children ELSE @,
            !.status = IF data.status # UNSET THEN data.status ELSE @,
            !.payment_status = IF data.payment_status # UNSET THEN data.payment_status ELSE @]

\* a body that names only the status, as cancel and no-show send to the repository
StatusOnly(st) ==
  [room_id |-> NULL, room_type_id |-> NULL, primary_guest_id |-> NULL, checkin |-> NULL, checkout |-> NULL,
   num_adults |-> NULL, num_children |-> NULL, status |-> st, payment_status |-> UNSET]

\* BookingRepository.update as one request: 404 for a missing row, 500 when the commit is refused
RepoUpdate(op, id, data) ==
  IF id \notin DOMAIN bookings
  THEN /\ Respond(op, id, 404)
       /\ UNCHANGED <<db, seqs, issued>>
  ELSE IF ~(chk_bookings_dates(UpdatedRow(bookings[id], data)) /\ chk_bookings_occupancy(UpdatedRow(bookings[id], data)))
  THEN /\ Respond(op, id, 500)
       /\ UNCHANGED <<db, seqs, issued>>
  ELSE /\ bookings' = [bookings EXCEPT ![id] = UpdatedRow(bookings[id], data)]
       /\ Respond(op, id, 200)
       /\ UNCHANGED <<booking_details, payments, rooms, seqs, issued>>

\* validation of update_booking after the status guard: the status of the first failing check
UpdateValidation(b, p) ==
  IF p.room_id = NULL THEN 400
  ELSE IF p.room_id # b.room_id /\ p.room_id \notin DOMAIN rooms THEN 400
  ELSE IF p.room_type_id = NULL \/ p.room_type_id \notin RoomTypeIds THEN 400
  ELSE IF p.primary_guest_id = NULL THEN 400
  ELSE IF p.primary_guest_id # b.primary_guest_id /\ p.primary_guest_id \notin GuestIds THEN 400
  ELSE IF p.checkin = NULL THEN 400
  ELSE IF b.checkin # p.checkin /\ p.checkin < now THEN 400
  ELSE IF p.checkout # NULL /\ p.checkin >= p.checkout THEN 400
  ELSE IF /\ (b.room_id # p.room_id \/ b.checkin # p.checkin \/ b.checkout # p.checkout)
          /\ is_room_booked(p.room_id, p.checkin, p.checkout) THEN 409
  ELSE IF p.num_adults = NULL \/ p.num_children = NULL THEN 400
  ELSE IF p.num_adults + p.num_children > max_occupancy[p.room_type_id] THEN 400
  ELSE 0

\* the list [BookingStatus.RESERVED, BookingStatus.CHECKED_IN] of the status guards
MutableStatuses == {BookingStatus.RESERVED, BookingStatus.CHECKED_IN}

\* update_booking with the availability check made for every request, ahead of the guard
update_booking_always_checks(id, p) ==
  /\ now < MaxTime
  /\ IF id \notin DOMAIN bookings
     THEN /\ Respond("update_booking", id, 404)
          /\ UNCHANGED <<db, seqs, issued>>
     ELSE IF p.checkin # NULL /\ is_room_booked(p.room_id, p.checkin, p.checkout)
     THEN /\ Respond("update_booking", id, 409)
          /\ UNCHANGED <<db, seqs, issued>>
     ELSE /\ Respond("update_booking", id, 500)
          /\ UNCHANGED <<db, seqs, issued>>

\* update_booking without its status guard
update_booking_unguarded(id, p) ==
  /\ now < MaxTime
  /\ IF id \notin DOMAIN bookings
     THEN /\ Respond("update_booking", id, 404)
          /\ UNCHANGED <<db, seqs, issued>>
     ELSE IF UpdateValidation(bookings[id], p) # 0
     THEN /\ Respond("update_booking", id, UpdateValidation(bookings[id], p))
          /\ UNCHANGED <<db, seqs, issued>>
     ELSE RepoUpdate("update_booking", id, p)

update_booking(id, p) ==
  /\ now < MaxTime
  /\ IF id \notin DOMAIN bookings
     THEN /\ Respond("update_booking", id, 404)
          /\ UNCHANGED <<db, seqs, issued>>
     ELSE IF ~HasMember(BookingStatus, "RESERVED")
     THEN /\ Respond("update_booking", id, 500)
          /\ UNCHANGED <<db, seqs, issued>>
     ELSE IF bookings[id].status \notin MutableStatuses
     THEN /\ Respond("update_booking", id, 400)
          /\ UNCHANGED <<db, seqs, issued>>
     ELSE IF UpdateValidation(bookings[id], p) # 0
     THEN /\ Respond("update_booking", id, UpdateValidation(bookings[id], p))
          /\ UNCHANGED <<db, seqs, issued>>
     ELSE RepoUpdate("update_booking", id, p)

\* --------------------------------------------------- PUT /bookings/{id}/cancel
cancel_booking(id) ==
  /\ now < MaxTime
  /\ IF ~HasMember(BookingStatus, "CANCELLED")
     THEN /\ Respond("cancel_booking", id, 500)
          /\ UNCHANGED <<db, seqs, issued>>
     ELSE RepoUpdate("cancel_booking", id, StatusOnly(BookingStatus.CANCELLED))

\* -------------------------------------------------- PUT /bookings/{id}/no-show
mark_booking_as_no_show(id) ==
  /\ now < MaxTime
  /\ IF ~HasMember(BookingStatus, "NO_SHOW")
     THEN /\ Respond("mark_booking_as_no_show", id, 500)
          /\ UNCHANGED <<db, seqs, issued>>
     ELSE RepoUpdate("mark_booking_as_no_show", id, StatusOnly(BookingStatus.NO_SHOW))

\* ------------------------------------------------------------ ledger rows
BookingDetailType == [ROOM |-> "Room", SERVICE |-> "Service", FEE |-> "Fee", ADJUSTMENT |-> "Adjustment"]

ServiceIds == {1}

chk_booking_details_service_ref(d) == d.type # BookingDetailType.SERVICE \/ d.service_id # NULL

BookingDetailBodies ==
  {[booking_id |-> b, type |-> BookingDetailType.ROOM, service_id |-> NULL, amount |-> a] :
      b \in BookingIdInputs, a \in Amounts}
  \cup {[booking_id |-> 1, type |-> BookingDetailType.SERVICE, service_id |-> 1, amount |-> 1],
        [booking_id |-> 1, type |-> BookingDetailType.SERVICE, service_id |-> NULL, amount |-> 1]}

PaymentBodies ==
  {[booking_id |-> b, payment_method |-> PaymentMethod.CASH, amount |-> a, payer_name |-> "Guest"] :
      b \in BookingIdInputs, a \in Amounts}

DetailIdInputs == 1..(MaxDetails + 1)

PaymentIdInputs == 1..(MaxPayments + 1)

\* BookingDetailRepository.create: 500 when the commit is refused (foreign key, check constraint)
BookingDetailRepository_create(op, id, data) ==
  IF data.booking_id \notin DOMAIN bookings \/ ~chk_booking_details_service_ref(data)
  THEN /\ Respond(op, id, 500)
       /\ UNCHANGED <<db, seqs, issued>>
  ELSE /\ booking_details' = booking_details \cup
             {[id |-> next_detail_id, booking_id |-> data.booking_id, type |-> data.type,
               service_id |-> data.service_id, amount |-> data.amount]}
       /\ next_detail_id' = next_detail_id + 1
       /\ Respond(op, id, 200)
       /\ UNCHANGED <<bookings, payments, rooms, next_booking_id, next_payment_id, issued>>

\* BookingDetailRepository.delete: the row is looked up by its own id only
BookingDetailRepository_delete(op, id, detail_id) ==
  IF \A d \in booking_details : d.id # detail_id
  THEN /\ Respond(op, id, 404)
       /\ UNCHANGED <<db, seqs, issued>>
  ELSE /\ booking_details' = {d \in booking_details : d.id # detail_id}
       /\ Respond(op, id, 204)
       /\ UNCHANGED <<bookings, payments, rooms, seqs, issued>>

\* PaymentRepository.create(payment_data)
PaymentRepository_create(op, id, data) ==
  IF data.booking_id \notin DOMAIN bookings
  THEN /\ Respond(op, id, 500)
       /\ UNCHANGED <<db, seqs, issued>>
  ELSE /\ payments' = payments \cup
             {[id |-> next_payment_id, booking_id |-> data.booking_id, payment_method |-> data.payment_method,
               amount |-> data.amount, payer_name |-> data.payer_name]}
       /\ next_payment_id' = next_payment_id + 1
       /\ Respond(op, id, 200)
       /\ UNCHANGED <<bookings, booking_details, rooms, next_booking_id, next_detail_id, issued>>

\* PaymentRepository.delete
PaymentRepository_delete(op, id, payment_id) ==
  IF \A q \in payments : q.id # payment_id
  THEN /\ Respond(op, id, 404)
       /\ UNCHANGED <<db, seqs, issued>>
  ELSE /\ payments' = {q \in payments : q.id # payment_id}
       /\ Respond(op, id, 204)
       /\ UNCHANGED <<bookings, booking_details, rooms, seqs, issued>>

\* the part every ledger handler starts with: the lookup and the status guard
LedgerGuard(id) ==
  IF id \notin DOMAIN bookings THEN 404
  ELSE IF ~HasMember(BookingStatus, "RESERVED") THEN 500
  ELSE IF bookings[id].status \notin MutableStatuses THEN 400
  ELSE 0

\* ------------------------------------------------ POST /bookings/{id}/details
add_booking_detail(id, payload) ==
  /\ now < MaxTime
  /\ next_detail_id <= MaxDetails
  /\ IF LedgerGuard(id) # 0
     THEN /\ Respond("add_booking_detail", id, LedgerGuard(id))
          /\ UNCHANGED <<db, seqs, issued>>
     ELSE BookingDetailRepository_create("add_booking_detail", id, [payload EXCEPT !.booking_id = id])

\* ------------------------------------ DELETE /bookings/{id}/details/{detail_id}
remove_booking_detail(id, detail_id) ==
  /\ now < MaxTime
  /\ IF LedgerGuard(id) # 0
     THEN /\ Respond("remove_booking_detail", id, LedgerGuard(id))
          /\ UNCHANGED <<db, seqs, issued>>
     ELSE BookingDetailRepository_delete("remove_booking_detail", id, detail_id)

\* ----------------------------------------------- POST /bookings/{id}/payments
\* The handler calls payment_repo.create(data, current_user); the method takes the data
\* only, so the call raises TypeError before anything is written.
add_booking_payment(id, payload) ==
  /\ now < MaxTime
  /\ IF LedgerGuard(id) # 0
     THEN /\ Respond("add_booking_payment", id, LedgerGuard(id))
          /\ UNCHANGED <<db, seqs, issued>>
     ELSE /\ Respond("add_booking_payment", id, 500)
          /\ UNCHANGED <<db, seqs, issued>>

\* ---------------------------------- DELETE /bookings/{id}/payments/{payment_id}
remove_booking_payment(id, payment_id) ==
  /\ now < MaxTime
  /\ IF LedgerGuard(id) # 0
     THEN /\ Respond("remove_booking_payment", id, LedgerGuard(id))
          /\ UNCHANGED <<db, seqs, issued>>
     ELSE PaymentRepository_delete("remove_booking_payment", id, payment_id)

\* ------------------------------------- the ledger repositories used directly
detail_repo_create(data) ==
  /\ now < MaxTime
  /\ next_detail_id <= MaxDetails
  /\ BookingDetailRepository_create("BookingDetailRepository.create", data.booking_id, data)

detail_repo_delete(detail_id) ==
  /\ now < MaxTime
  /\ BookingDetailRepository_delete("BookingDetailRepository.delete", 0, detail_id)

payment_repo_create(data) ==
  /\ now < MaxTime
  /\ next_payment_id <= MaxPayments
  /\ PaymentRepository_create("PaymentRepository.create", data.booking_id, data)

payment_repo_delete(payment_id) ==
  /\ now < MaxTime
  /\ PaymentRepository_delete("PaymentRepository.delete", 0, payment_id)

\* --------------------------------------------------- GET /rooms/available
\* the default hours of arrival (14:00) and of departure (12:00), in slots of the day
CheckinHour == (14 * DayLen) \div 24

CheckoutHour == (12 * DayLen) \div 24

\* 00:00 of the day of t
Midnight(t) == t - (t % DayLen)

\* a from_date that is missing is today 14:00; one with no time of day is moved to 14:00
NormalFrom(from_date) ==
  LET f == IF from_date = NULL THEN Midnight(now) + CheckinHour ELSE from_date
  IN IF f = Midnight(f) THEN f + CheckinHour ELSE f

\* a to_date that is missing is the day after from_date 12:00; one with no time of day is moved to 12:00
NormalTo(from_date, to_date) ==
  LET t == IF to_date = NULL THEN Midnight(NormalFrom(from_date)) + DayLen + CheckoutHour ELSE to_date
  IN IF t = Midnight(t) THEN t + CheckoutHour ELSE t

\* the subquery: rooms of the RESERVED and CHECKED_IN bookings that meet [from_date, to_date]
BookedRoomIds(from_date, to_date) ==
  {bookings[i].room_id : i \in {j \in DOMAIN bookings :
      /\ bookings[j].status \in {BookingStatus.RESERVED, BookingStatus.CHECKED_IN}
      /\ bookings[j].checkin <= to_date
      /\ (bookings[j].checkout = NULL \/ bookings[j].checkout > from_date)}}

\* RoomRepository.get_available_rooms: building the subquery evaluates BookingStatus.RESERVED
get_available_rooms(from_date, to_date) ==
  IF ~HasMember(BookingStatus, "RESERVED")
  THEN [raised |-> TRUE, rooms |-> {}]
  ELSE [raised |-> FALSE,
        rooms |-> {r \in DOMAIN rooms :
                     /\ rooms[r].status = RoomStatus.AVAILABLE
                     /\ rooms[r].housekeeping_status = HousekeepingStatus.CLEAN
                     /\ r \notin BookedRoomIds(NormalFrom(from_date), NormalTo(from_date, to_date))}]

AvailableQueries == {[from_date |-> f, to_date |-> t] : f \in {NULL, 0, 1}, t \in {NULL, MaxSlot}}

list_available_rooms(q) ==
  /\ now < MaxTime
  /\ Respond("list_available_rooms", 0,
             IF get_available_rooms(q.from_date, q.to_date).raised THEN 500 ELSE 200)
  /\ UNCHANGED <<db, seqs, issued>>

\* time passing with no request
Tick ==
  /\ now < MaxTime
  /\ Respond("idle", 0, 0)
  /\ UNCHANGED <<db, seqs, issued>>

Next ==
  \/ \E p \in BookingCreateBodies : create_booking(p)
  \/ \E id \in BookingIdInputs : checkin_booking(id)
  \/ \E id \in BookingIdInputs : checkout_booking(id)
  \/ \E id \in BookingIdInputs : delete_booking(id)
  \/ \E id \in BookingIdInputs, p \in BookingUpdateBodies : update_booking(id, p)
  \/ \E id \in BookingIdInputs : cancel_booking(id)
  \/ \E id \in BookingIdInputs : mark_booking_as_no_show(id)
  \/ \E id \in BookingIdInputs, d \in BookingDetailBodies : add_booking_detail(id, d)
  \/ \E id \in BookingIdInputs, d \in DetailIdInputs : remove_booking_detail(id, d)
  \/ \E id \in BookingIdInputs, q \in PaymentBodies : add_booking_payment(id, q)
  \/ \E id \in BookingIdInputs, q \in PaymentIdInputs : remove_booking_payment(id, q)
  \/ \E q \in AvailableQueries : list_available_rooms(q)
  \/ Tick

\* the HTTP handlers
Spec == Init /\ [][Next]_vars

LedgerNext ==
  \/ \E p \in BookingCreateBodies : create_booking(p)
  \/ \E id \in BookingIdInputs : checkin_booking(id)
  \/ \E id \in BookingIdInputs : checkout_booking(id)
  \/ \E id \in BookingIdInputs : delete_booking(id)
  \/ Tick
  \/ \E d \in BookingDetailBodies : detail_repo_create(d)
  \/ \E d \in DetailIdInputs : detail_repo_delete(d)
  \/ \E q \in PaymentBodies : payment_repo_create(q)
  \/ \E q \in PaymentIdInputs : payment_repo_delete(q)

\* the booking handlers over a ledger written through its repositories directly
LedgerSpec == Init /\ [][LedgerNext]_vars

\* ------------------------------------------- POST /bookings, await by await
\* Requests run as coroutines over their own sessions on one database, so between two awaits
\* of one request another request can run. create_booking suspends after the validation
\* (the last query is is_room_booked), after the SELECT max of generate_booking_no, and at
\* the commit of the INSERT. Every statement reads the rows committed so far.
ConcurrentBodies ==
  {[BaseBody EXCEPT !.checkin = ci, !.checkout = co] : ci \in Times, co \in Times}
  \cup {[BaseBody EXCEPT !.room_id = 2]}

\* what a request that is not suspended leaves behind
Answer(op, id, code) ==
  /\ lastOp' = op
  /\ lastId' = id
  /\ lastStatus' = code
  /\ now' = now

\* the validation of the router, up to the call of booking_repo.create
create_booking_validate(r, p) ==
  /\ inflight[r].pc = "idle"
  /\ next_booking_id <= MaxBookings
  /\ IF CreateValidation(p) # 0
     THEN /\ Answer("create_booking", 0, CreateValidation(p))
          /\ UNCHANGED <<db, seqs, issued, inflight>>
     ELSE /\ inflight' = [inflight EXCEPT ![r] = [pc |-> "generate", payload |-> p]]
          /\ UNCHANGED <<db, seqs, issued, now, lastOp, lastId, lastStatus>>

\* booking.booking_no = await self.generate_booking_no()
create_generate_booking_no(r) ==
  /\ inflight[r].pc = "generate"
  /\ inflight' = [inflight EXCEPT ![r] =
                    [pc |-> "commit", payload |-> inflight[r].payload, booking_no |-> generate_booking_no]]
  /\ UNCHANGED <<db, seqs, issued, now, lastOp, lastId, lastStatus>>

\* self.session.add(booking); await self.session.commit()
create_commit(r) ==
  /\ inflight[r].pc = "commit"
  /\ next_booking_id <= MaxBookings
  /\ inflight' = [inflight EXCEPT ![r] = Idle]
  /\ LET b == [NewBooking(inflight[r].payload) EXCEPT !.booking_no = inflight[r].booking_no]
     IN IF ~(chk_bookings_dates(b) /\ chk_bookings_occupancy(b) /\ booking_no_unique(b))
        THEN /\ Answer("create_booking", 0, 500)
             /\ UNCHANGED <<db, seqs, issued>>
        ELSE /\ bookings' = Extend(bookings, next_booking_id, b)
             /\ next_booking_id' = next_booking_id + 1
             /\ issued' = Append(issued, b.booking_no)
             /\ Answer("create_booking", next_booking_id, 201)
             /\ UNCHANGED <<booking_details, payments, rooms, next_detail_id, next_payment_id>>

ConcurrentNext ==
  \/ \E r \in Requests, p \in ConcurrentBodies : create_booking_validate(r, p)
  \/ \E r \in Requests : create_generate_booking_no(r)
  \/ \E r \in Requests : create_commit(r)
  \/ Tick

\* create-booking requests interleaved at their awaits
ConcurrentSpec == Init /\ [][ConcurrentNext]_vars

\* ------------------------------- PUT /bookings/{id}/checkout, await by await
\* BookingRepository.checkout loads the booking and tests its status, assigns status and
\* checkout, and then runs the two SUM queries; the first of them flushes the pending UPDATE
\* of the booking row, which takes the lock of that row until the transaction ends and waits
\* while another transaction holds it. The commit writes the booking, the settlement payment
\* and the room.

\* a database without row locks: an UPDATE never waits
RowLocked_off(r, id) == FALSE

\* another request has flushed its UPDATE of booking id and has not ended its transaction
RowLocked(r, id) ==
  \E o \in Requests \ {r} :
    inflight[o].pc \in {"checkout_paid", "checkout_commit"} /\ inflight[o].booking_id = id

\* the bookings to check out: one that has begun, one on another room that begins at MaxTime
CheckoutRaceBodies == {[BaseBody EXCEPT !.checkin = 0], [BaseBody EXCEPT !.room_id = 2]}

\* no check-out is suspended
NoCheckoutInFlight == \A r \in Requests : inflight[r].pc = "idle"

\* booking = await self.session.get(Booking, booking_id), and the status guard
checkout_get(r, id) ==
  /\ inflight[r].pc = "idle"
  /\ IF id \notin DOMAIN bookings
     THEN /\ Answer("checkout_booking", id, 404)
          /\ UNCHANGED <<db, seqs, issued, inflight>>
     ELSE IF ~CheckoutAllowed(bookings[id])
     THEN /\ Answer("checkout_booking", id, 400)
          /\ UNCHANGED <<db, seqs, issued, inflight>>
     ELSE /\ inflight' = [inflight EXCEPT ![r] = [pc |-> "checkout_flush", booking_id |-> id, at |-> now]]
          /\ UNCHANGED <<db, seqs, issued, now, lastOp, lastId, lastStatus>>

\* the SUM over booking_details, behind the flush of the booking row
checkout_total(r) ==
  /\ inflight[r].pc = "checkout_flush"
  /\ ~RowLocked(r, inflight[r].booking_id)
  /\ IF ~chk_bookings_dates([bookings[inflight[r].booking_id] EXCEPT !.checkout = inflight[r].at])
     THEN /\ inflight' = [inflight EXCEPT ![r] = Idle]
          /\ Answer("checkout_booking", inflight[r].booking_id, 500)
          /\ UNCHANGED <<db, seqs, issued>>
     ELSE /\ inflight' = [inflight EXCEPT ![r] =
                            [pc |-> "checkout_paid", booking_id |-> inflight[r].booking_id,
                             at |-> inflight[r].at, total |-> total_amount(inflight[r].booking_id)]]
          /\ UNCHANGED <<db, seqs, issued, now, lastOp, lastId, lastStatus>>

\* the SUM over payments
checkout_paid(r) ==
  /\ inflight[r].pc = "checkout_paid"
  /\ inflight' = [inflight EXCEPT ![r] =
                    [pc |-> "checkout_commit", booking_id |-> inflight[r].booking_id, at |-> inflight[r].at,
                     total |-> inflight[r].total, paid |-> paid_amount(inflight[r].booking_id)]]
  /\ UNCHANGED <<db, seqs, issued, now, lastOp, lastId, lastStatus>>

\* the settlement payment, the room and await self.session.commit()
checkout_commit(r) ==
  /\ inflight[r].pc = "checkout_commit"
  /\ LET id == inflight[r].booking_id
         remaining == inflight[r].total - inflight[r].paid
     IN /\ bookings' = [bookings EXCEPT ![id] =
                          [@ EXCEPT !.status = BookingStatus.CHECKED_OUT, !.checkout = inflight[r].at,
                                    !.payment_status = PaymentStatus.PAID]]
        /\ IF remaining > 0
           THEN /\ payments' = payments \cup {[AutoPayment(id) EXCEPT !.amount = remaining]}
                /\ next_payment_id' = next_payment_id + 1
           ELSE UNCHANGED <<payments, next_payment_id>>
        /\ rooms' = [rooms EXCEPT ![bookings[id].room_id] =
                       [status |-> RoomStatus.AVAILABLE, housekeeping_status |-> HousekeepingStatus.DIRTY]]
        /\ Answer("checkout_booking", id, 500)
        /\ inflight' = [inflight EXCEPT ![r] = Idle]
        /\ UNCHANGED <<booking_details, next_booking_id, next_detail_id, issued>>

CheckoutRaceNext ==
  \/ \E p \in CheckoutRaceBodies : NoCheckoutInFlight /\ create_booking(p)
  \/ \E d \in BookingDetailBodies : NoCheckoutInFlight /\ d.booking_id \in DOMAIN bookings /\ detail_repo_create(d)
  \/ \E q \in PaymentBodies : NoCheckoutInFlight /\ q.booking_id \in DOMAIN bookings /\ payment_repo_create(q)
  \/ \E r \in Requests, id \in BookingIdInputs : checkout_get(r, id)
  \/ \E r \in Requests : checkout_total(r)
  \/ \E r \in Requests : checkout_paid(r)
  \/ \E r \in Requests : checkout_commit(r)

\* check-out requests interleaved at their awaits, over a ledger written beforehand
CheckoutRaceSpec == Init /\ [][CheckoutRaceNext]_vars

\* ====================================================================== claims

\* booking b is one the availability rule counts: on the room, not CheckedOut
Active(b, room_id) == b.room_id = room_id /\ b.status # "CheckedOut"

\* [a.checkin, a.checkout) and [ci, co) share an instant, a missing end meaning +infinity
Overlap(a, ci, co) == (co = NULL \/ a.checkin < co) /\ (a.checkout = NULL \/ ci < a.checkout)

\* C1: a create-booking request is never accepted while a stored booking of the same room
\* with status other than CheckedOut overlaps the requested interval.
C1_CreateRejectsOverlap ==
  (lastOp = "create_booking" /\ lastStatus = 201) =>
    \A i \in DOMAIN bookings \ {lastId} :
      ~(/\ Active(bookings[i], bookings[lastId].room_id)
        /\ Overlap(bookings[i], bookings[lastId].checkin, bookings[lastId].checkout))

\* a well-formed request body served now
WellFormed(p) ==
  /\ p.room_id \in RoomIds /\ p.room_type_id \in RoomTypeIds /\ p.primary_guest_id \in GuestIds
  /\ p.checkin >= now /\ (p.checkout = NULL \/ p.checkout > p.checkin)
  /\ p.num_adults + p.num_children \in 1..max_occupancy[p.room_type_id]

\* C2: intervals are half-open. A well-formed create-booking request that starts exactly at
\* the checkout of a stored booking of the room and overlaps no active booking of the room is
\* accepted and stored; and is_room_booked reports no conflict for an interval that ends
\* exactly at the checkin of a stored booking and overlaps no active booking of the room.
C2_HalfOpen ==
  /\ [][lastOp' = "create_booking" =>
          \A p \in BookingCreateBodies :
            ( /\ WellFormed(p)
              /\ \E i \in DOMAIN bookings : Active(bookings[i], p.room_id) /\ bookings[i].checkout = p.checkin
              /\ \A i \in DOMAIN bookings : Active(bookings[i], p.room_id) => ~Overlap(bookings[i], p.checkin, p.checkout)
              /\ create_booking(p) )
            => /\ lastStatus' = 201
               /\ lastId' \in DOMAIN bookings' \ DOMAIN bookings
               /\ bookings'[lastId'].checkin = p.checkin
               /\ bookings'[lastId'].checkout = p.checkout]_vars
  /\ [](\A i \in DOMAIN bookings : \A ci \in Times :
          ( /\ ci < bookings[i].checkin
            /\ \A j \in DOMAIN bookings :
                 Active(bookings[j], bookings[i].room_id) => ~Overlap(bookings[j], ci, bookings[i].checkin) )
          => ~is_room_booked(bookings[i].room_id, ci, bookings[i].checkin))

\* C2 witness: a booking was just stored whose checkin is the checkout of another active
\* booking of the same room.
C2_Witness ==
  /\ lastOp = "create_booking" /\ lastStatus = 201
  /\ \E i \in DOMAIN bookings \ {lastId} :
       /\ Active(bookings[i], bookings[lastId].room_id)
       /\ bookings[i].checkout = bookings[lastId].checkin

\* C3: every assigned booking number ends in exactly three digits, and the numbers assigned
\* on one day carry strictly increasing suffixes, so that none is assigned twice.
C3_BookingNoSequence ==
  /\ \A k \in 1..Len(issued) : Len(issued[k].seq) = 3
  /\ \A j \in 1..Len(issued) : \A k \in 1..Len(issued) :
       (j < k /\ issued[j].prefix = issued[k].prefix) => IntOf(issued[j].seq) < IntOf(issued[k].seq)

\* this step serves the request `op` on the booking id, stored when the request arrives
Served(op, id) == lastOp' = op /\ lastId' = id /\ id \in DOMAIN bookings

\* C4: check-out of a stored booking whose status is not CheckedIn answers 400, creates no
\* payment and leaves bookings, details, payments and rooms as they were.
C4_CheckoutNeedsCheckedIn ==
  [][\A id \in BookingIdInputs :
       (Served("checkout_booking", id) /\ bookings[id].status # "CheckedIn")
       => (lastStatus' = 400 /\ UNCHANGED db)]_vars

\* C4 witness: a check-out of a CheckedOut booking was just refused.
C4_Witness ==
  /\ lastOp = "checkout_booking" /\ lastStatus = 400
  /\ lastId \in DOMAIN bookings /\ bookings[lastId].status = "CheckedOut"

\* the ledger sums of a booking, over given tables
DetailSum(D, id) == SumAmount({d \in D : d.booking_id = id})

PaymentSum(P, id) == SumAmount({q \in P : q.booking_id = id})

\* what C5 promises for a check-out of booking id served in this step
Settled(id) ==
  /\ \E q \in payments' \ payments :
       /\ payments' = payments \cup {q}
       /\ q.booking_id = id
       /\ q.amount = DetailSum(booking_details, id) - PaymentSum(payments, id)
       /\ q.payment_method = "Other"
       /\ q.payer_name = "System"
  /\ booking_details' = booking_details
  /\ PaymentSum(payments', id) = DetailSum(booking_details', id)
  /\ bookings'[id].status = "CheckedOut"
  /\ bookings'[id].payment_status = "Paid"

C6_CheckoutAllOrNothing ==
  [][(lastOp' = "checkout_booking" /\ lastStatus' >= 400) => UNCHANGED db]_vars

\* C7: once the status of a stored booking is CheckedOut, Cancelled or NoShow, no request
\* changes it.
C7_TerminalStatus ==
  [][\A id \in DOMAIN bookings \cap DOMAIN bookings' :
       bookings[id].status \in {"CheckedOut", "Cancelled", "NoShow"}
       => bookings'[id].status = bookings[id].status]_vars

\* C8: the booking stored by a successful create-booking has status Reserved.
C8_CreatedReserved ==
  (lastOp = "create_booking" /\ lastStatus = 201) => bookings[lastId].status = "Reserved"

\* what C9 promises for a check-in that acts on booking id in this step
CheckedInNow(id) ==
  /\ bookings' = [bookings EXCEPT ![id].status = "CheckedIn", ![id].checkin = now]
  /\ rooms' = [rooms EXCEPT ![bookings[id].room_id].status = "Occupied"]
  /\ lastStatus' = 200

C10_DeleteGuard ==
  [][\A id \in BookingIdInputs :
       Served("delete_booking", id)
       => IF \E q \in payments : q.booking_id = id
          THEN lastStatus' = 400 /\ UNCHANGED db
          ELSE lastStatus' = 204 /\ id \notin DOMAIN bookings']_vars

\* C10 witness: the deletion of a CheckedOut booking that has a payment was just refused.
C10_Witness ==
  /\ lastOp = "delete_booking" /\ lastStatus = 400 /\ lastId \in DOMAIN bookings
  /\ bookings[lastId].status = "CheckedOut"
  /\ \E q \in payments : q.booking_id = lastId

\* the statuses in which the booking and its ledgers may be edited
Mutable(b) == b.status \in {"Reserved", "CheckedIn"}

\* the request p asks for more guests than its room type holds
OverLimit(p) ==
  p.room_type_id \in RoomTypeIds /\ p.num_adults + p.num_children > max_occupancy[p.room_type_id]

\* the request p asks for at least one guest and no more than its room type holds
WithinLimit(p) ==
  p.room_type_id \in RoomTypeIds /\ p.num_adults + p.num_children \in 1..max_occupancy[p.room_type_id]

\* the request p with one adult in place of its guests
OneAdult(p) == [p EXCEPT !.num_adults = 1, !.num_children = 0]

\* C11: a create-booking request, and an update-booking request on an editable booking, that
\* passes every other check and names more guests than the max_occupancy of its room type is
\* answered 400 and stores nothing; one that passes every other check and is within the limit
\* is not answered 400.
C11_OccupancyLimit ==
  [][ /\ lastOp' = "create_booking" =>
           \A p \in BookingCreateBodies :
             (CreateValidation(OneAdult(p)) = 0 /\ create_booking(p))
             => /\ OverLimit(p) => (lastStatus' = 400 /\ UNCHANGED db)
                /\ WithinLimit(p) => lastStatus' # 400
      /\ lastOp' = "update_booking" =>
           \A id \in DOMAIN bookings : \A p \in BookingUpdateBodies :
             ( /\ Mutable(bookings[id])
               /\ UpdateValidation(bookings[id], OneAdult(p)) = 0
               /\ update_booking(id, p) )
             => /\ OverLimit(p) => (lastStatus' = 400 /\ UNCHANGED db)
                /\ WithinLimit(p) => lastStatus' # 400 ]_vars

C13_DetailGuard ==
  [][\A id \in BookingIdInputs :
       ( /\ Served("add_booking_detail", id) \/ Served("remove_booking_detail", id)
         /\ ~Mutable(bookings[id]) )
       => (lastStatus' = 400 /\ booking_details' = booking_details)]_vars

\* C14: adding a payment with a positive amount to a stored booking that is Reserved or
\* CheckedIn succeeds and stores exactly one payment of that booking, which raises its paid
\* amount by the amount of the request; adding a payment to, or removing one from, a booking
\* in another status is refused and leaves the payments as they were.
C14_PaymentGuard ==
  [][ /\ lastOp' = "add_booking_payment" =>
           \A id \in DOMAIN bookings : \A q \in PaymentBodies :
             (q.amount > 0 /\ add_booking_payment(id, q))
             => IF Mutable(bookings[id])
                THEN /\ lastStatus' < 400
                     /\ \E x \in payments' \ payments :
                          payments' = payments \cup {x} /\ x.booking_id = id /\ x.amount = q.amount
                     /\ PaymentSum(payments', id) = PaymentSum(payments, id) + q.amount
                ELSE lastStatus' >= 400 /\ payments' = payments
      /\ \A id \in BookingIdInputs :
           (Served("remove_booking_payment", id) /\ ~Mutable(bookings[id]))
           => (lastStatus' >= 400 /\ payments' = payments) ]_vars

\* C15: two stored bookings never carry the same booking_no, whatever the interleaving of the
\* create-booking requests; a request that reaches its commit with a number some stored
\* booking carries is refused by the unique index and stores nothing.
C15_UniqueBookingNo ==
  /\ [](\A i \in DOMAIN bookings : \A j \in DOMAIN bookings :
          i # j => bookings[i].booking_no # bookings[j].booking_no)
  /\ [][\A r \in Requests :
          ( /\ create_commit(r)
            /\ \E i \in DOMAIN bookings : bookings[i].booking_no = inflight[r].booking_no )
          => (lastStatus' = 500 /\ UNCHANGED db)]_vars

\* C15 witness: of two requests that generated the same number one is stored and the other
\* was just refused at its commit.
C15_Witness ==
  /\ lastOp = "create_booking" /\ lastStatus = 500
  /\ Cardinality(DOMAIN bookings) = 1
  /\ \A r \in Requests : inflight[r].pc = "idle"

\* C16: whatever the interleaving of the create-booking requests, no two stored bookings of
\* one room with status other than CheckedOut overlap.
C16_NoOverlapConcurrent ==
  \A i \in DOMAIN bookings : \A j \in DOMAIN bookings :
    (i # j /\ Active(bookings[j], bookings[i].room_id) /\ Active(bookings[i], bookings[i].room_id))
    => ~Overlap(bookings[i], bookings[j].checkin, bookings[j].checkout)

\* the row b satisfies both check constraints the spec states for bookings
ConstraintsHold(b) ==
  /\ b.checkout = NULL \/ b.checkout >= b.checkin
  /\ b.num_adults + b.num_children > 0

\* the request body p names a checkout before its checkin, or no guest
BreaksConstraint(p) ==
  \/ p.checkin # NULL /\ p.checkout # NULL /\ p.checkout < p.checkin
  \/ p.num_adults # NULL /\ p.num_children # NULL /\ p.num_adults + p.num_children <= 0

\* C17: every stored booking has checkout null or not before checkin, and at least one
\* guest; and a create or update whose body breaks one of the two, a check-in of a booking
\* whose checkout is before the current time and a check-out of a booking whose checkin is
\* after the current time leave the bookings as they were.
C17_CheckConstraints ==
  /\ [](\A i \in DOMAIN bookings : ConstraintsHold(bookings[i]))
  /\ [][ /\ (lastOp' = "create_booking" /\ bookings' # bookings) =>
              \A p \in BookingCreateBodies : BreaksConstraint(p) => ~create_booking(p)
         /\ (lastOp' = "update_booking" /\ bookings' # bookings) =>
              \A id \in BookingIdInputs : \A p \in BookingUpdateBodies :
                BreaksConstraint(p) => ~update_booking(id, p)
         /\ \A id \in BookingIdInputs :
              ( /\ Served("checkin_booking", id)
                /\ bookings[id].status # "CheckedIn"
                /\ bookings[id].checkout # NULL /\ bookings[id].checkout < now )
              => bookings' = bookings
         /\ \A id \in BookingIdInputs :
              ( /\ Served("checkout_booking", id)
                /\ bookings[id].status = "CheckedIn"
                /\ bookings[id].checkin > now )
              => bookings' = bookings ]_vars

\* C17 witness: a check-out was just refused for a CheckedIn booking whose checkin is after
\* the time the request was served at, and the booking is still CheckedIn.
C17_Witness ==
  /\ lastOp = "checkout_booking" /\ lastStatus = 500 /\ lastId \in DOMAIN bookings
  /\ bookings[lastId].status = "CheckedIn"
  /\ bookings[lastId].checkin > now - 1

\* C18: cancel, respectively no-show, of a stored booking that is Reserved or CheckedIn sets
\* its status to Cancelled, respectively NoShow, and changes nothing else: not its other
\* fields, no other booking, no detail, no payment and no room.
C18_CancelNoShowFrame ==
  [][\A id \in BookingIdInputs :
       /\ (Served("cancel_booking", id) /\ Mutable(bookings[id]))
          => /\ bookings' = [bookings EXCEPT ![id].status = "Cancelled"]
             /\ UNCHANGED <<booking_details, payments, rooms>>
       /\ (Served("mark_booking_as_no_show", id) /\ Mutable(bookings[id]))
          => /\ bookings' = [bookings EXCEPT ![id].status = "NoShow"]
             /\ UNCHANGED <<booking_details, payments, rooms>>]_vars

\* C19: for every room and every candidate interval, is_room_booked is true exactly when a
\* stored booking of the room with status other than CheckedOut begins before the candidate's
\* checkout (before +infinity when there is none) and has no checkout or one after the
\* candidate's checkin.
C19_IsRoomBookedFormula ==
  \A room_id \in RoomIds : \A ci \in Times : \A co \in Times \cup {NULL} :
    is_room_booked(room_id, ci, co)
    <=> \E i \in DOMAIN bookings :
          /\ Active(bookings[i], room_id)
          /\ co = NULL \/ bookings[i].checkin < co
          /\ bookings[i].checkout = NULL \/ bookings[i].checkout > ci

\* C20: check-out of a CheckedIn booking that has begun and whose payments cover its details
\* succeeds, inserts no payment, and leaves the booking CheckedOut and Paid.
C20_CheckoutZeroBalance ==
  [][\A id \in BookingIdInputs :
       ( /\ Served("checkout_booking", id)
         /\ bookings[id].status = "CheckedIn"
         /\ bookings[id].checkin <= now
         /\ DetailSum(booking_details, id) <= PaymentSum(payments, id) )
       => /\ lastStatus' = 200
          /\ payments' = payments
          /\ bookings'[id].status = "CheckedOut"
          /\ bookings'[id].payment_status = "Paid"]_vars

\* C21: a check-out that takes a CheckedIn booking to CheckedOut sets its checkout to the
\* current time and its room to Available and Dirty, and changes no other room and no other
\* booking.
C21_CheckoutFrame ==
  [][\A id \in BookingIdInputs :
       ( /\ Served("checkout_booking", id)
         /\ bookings[id].status = "CheckedIn"
         /\ bookings'[id].status = "CheckedOut" )
       => /\ bookings'[id].checkout = now
          /\ rooms' = [rooms EXCEPT ![bookings[id].room_id] =
                         [status |-> "Available", housekeeping_status |-> "Dirty"]]
          /\ DOMAIN bookings' = DOMAIN bookings
          /\ \A j \in DOMAIN bookings \ {id} : bookings'[j] = bookings[j]]_vars

\* C21 witness: a booking was just checked out at the time the request was served, its room
\* is Available and Dirty, and another booking is stored.
C21_Witness ==
  /\ lastOp = "checkout_booking" /\ lastId \in DOMAIN bookings
  /\ bookings[lastId].status = "CheckedOut" /\ bookings[lastId].checkout = now - 1
  /\ rooms[bookings[lastId].room_id] = [status |-> "Available", housekeeping_status |-> "Dirty"]
  /\ \E j \in DOMAIN bookings : j # lastId

\* the request body p keeps the room and the dates of the stored booking b
KeepsRoomAndDates(b, p) == p.room_id = b.room_id /\ p.checkin = b.checkin /\ p.checkout = b.checkout

C23_PaymentStatusDerived ==
  \A i \in DOMAIN bookings :
    /\ bookings[i].payment_status = "Paid" => PaymentSum(payments, i) >= DetailSum(booking_details, i)
    /\ (\E q \in payments : q.booking_id = i) => bookings[i].payment_status # "Unpaid"

\* the create-booking body p, served now, names a missing room, room type or guest, a checkin
\* in the past, or a checkout that is not after its checkin
Invalid(p) ==
  \/ p.room_id \notin RoomIds
  \/ p.room_type_id \notin RoomTypeIds
  \/ p.primary_guest_id \notin GuestIds
  \/ p.checkin < now
  \/ p.checkout # NULL /\ p.checkout <= p.checkin

\* C24: a create-booking request that names a missing room, room type or guest, a checkin in
\* the past, or a checkout not after its checkin is answered 400 and writes nothing: the
\* tables, the key sequences and the booking numbers handed out are as before.
C24_CreateValidation ==
  [][lastOp' = "create_booking" =>
       \A p \in BookingCreateBodies :
         (Invalid(p) /\ create_booking(p)) => (lastStatus' = 400 /\ UNCHANGED <<db, seqs, issued>>)]_vars

\* C24 witness: a create-booking request was just answered 400 at a time when every interval
\* a request can name begins in the past, with a booking stored before it.
C24_Witness ==
  /\ lastOp = "create_booking" /\ lastStatus = 400
  /\ now - 1 > MaxSlot
  /\ bookings # << >>

\* C25: an update-booking request is answered with a room conflict only when a booking other
\* than the updated one, not CheckedOut, occupies the requested room and interval; and a valid
\* request that changes only the dates of a Reserved or CheckedIn booking whose room holds no
\* other booking is accepted and stores the new dates.
C25_UpdateConflictOnlyWithOthers ==
  [][lastOp' = "update_booking" =>
       \A id \in DOMAIN bookings : \A p \in BookingUpdateBodies :
         update_booking(id, p)
         => /\ lastStatus' = 409
               => \E j \in DOMAIN bookings \ {id} :
                    Active(bookings[j], p.room_id) /\ Overlap(bookings[j], p.checkin, p.checkout)
            /\ ( /\ Mutable(bookings[id])
                 /\ p.room_id = bookings[id].room_id
                 /\ p.room_type_id \in RoomTypeIds /\ p.primary_guest_id \in GuestIds
                 /\ p.checkin = bookings[id].checkin \/ p.checkin >= now
                 /\ p.checkout = NULL \/ p.checkout > p.checkin
                 /\ p.checkin # bookings[id].checkin \/ p.checkout # bookings[id].checkout
                 /\ WithinLimit(p)
                 /\ p.status = UNSET /\ p.payment_status = UNSET
                 /\ \A j \in DOMAIN bookings \ {id} : bookings[j].room_id # p.room_id )
               => /\ lastStatus' = 200
                  /\ bookings'[id].checkin = p.checkin
                  /\ bookings'[id].checkout = p.checkout]_vars

\* C26: a room is Occupied exactly when a booking of the room is CheckedIn, and no room has
\* two CheckedIn bookings.
C26_RoomFollowsLifecycle ==
  \A r \in RoomIds :
    LET In == {i \in DOMAIN bookings : bookings[i].room_id = r /\ bookings[i].status = "CheckedIn"}
    IN /\ rooms[r].status = "Occupied" <=> In # {}
       /\ Cardinality(In) <= 1

\* C27: every CheckedOut booking has a checkout time and payments that cover its details, and
\* the booking a create-booking request stores is not CheckedOut and has payment_status
\* Unpaid, whatever the request body names.
C27_StatusOnlyByWorkflow ==
  /\ \A i \in DOMAIN bookings :
       bookings[i].status = "CheckedOut"
       => /\ bookings[i].checkout # NULL
          /\ PaymentSum(payments, i) >= DetailSum(booking_details, i)
  /\ (lastOp = "create_booking" /\ lastStatus = 201)
     => /\ bookings[lastId].status # "CheckedOut"
        /\ bookings[lastId].payment_status = "Unpaid"

\* the ledger rows of booking id, over given tables
LedgerOf(D, P, id) == <<{d \in D : d.booking_id = id}, {q \in P : q.booking_id = id}>>

\* C28: add-payment on a Reserved or CheckedIn booking stores one payment under the booking of
\* the path; remove-detail and remove-payment remove only rows of the booking of the path;
\* and no request changes the details or payments of a stored booking that is CheckedOut,
\* Cancelled or NoShow.
C28_LedgerScopedToPath ==
  [][ /\ lastOp' = "add_booking_payment" =>
           \A id \in DOMAIN bookings : \A q \in PaymentBodies :
             (Mutable(bookings[id]) /\ add_booking_payment(id, q))
             => \E x \in payments' \ payments : payments' = payments \cup {x} /\ x.booking_id = id
      /\ \A id \in BookingIdInputs :
           (Served("remove_booking_detail", id) \/ Served("remove_booking_payment", id))
           => /\ \A d \in booking_details \ booking_details' : d.booking_id = id
              /\ \A x \in payments \ payments' : x.booking_id = id
      /\ \A id \in DOMAIN bookings \cap DOMAIN bookings' :
           bookings[id].status \in {"CheckedOut", "Cancelled", "NoShow"}
           => LedgerOf(booking_details', payments', id) = LedgerOf(booking_details, payments, id) ]_vars

\* the settlement payments check-out has stored for booking id
Settlements(id) == {q \in payments : q.booking_id = id /\ q.payer_name = "System"}

\* C29: whatever the interleaving of the check-out requests on a booking, at most one
\* settlement payment is stored for it, and a check-out that stores a payment leaves the
\* booking's payment sum equal to its detail sum.
C29_OneSettlement ==
  /\ [](\A id \in DOMAIN bookings : Cardinality(Settlements(id)) <= 1)
  /\ [][\A id \in DOMAIN bookings :
          (lastOp' = "checkout_booking" /\ lastId' = id /\ payments' # payments)
          => PaymentSum(payments', id) = DetailSum(booking_details', id)]_vars

\* C29 witness: a check-out that passed the status guard while the booking was CheckedIn is
\* about to commit after another check-out of the same booking has stored its settlement
\* payment, and has found nothing left to settle.
C29_Witness ==
  \E r \in Requests :
    /\ inflight[r].pc = "checkout_commit"
    /\ bookings[inflight[r].booking_id].status = "CheckedOut"
    /\ Settlements(inflight[r].booking_id) # {}
    /\ inflight[r].total - inflight[r].paid <= 0

\* C30: for every interval [from, to), the available-rooms listing is answered and every
\* room it returns passes the availability check of create-booking for that interval:
\* is_room_booked(room, from, to) is false.
C30_ListingAgrees ==
  \A f \in Times, t \in Times :
    f < t =>
      /\ ~get_available_rooms(f, t).raised
      /\ \A r \in get_available_rooms(f, t).rooms : ~is_room_booked(r, f, t)

====
